---- MODULE Spec2Model ----
(***************************************************************************)
(* Model of the ccc-ragbot front-ends: the three transports of main.py     *)
(* (POST /query, POST /query/stream, WebSocket /query/ws) and the          *)
(* endpoints of server.py (POST /chat, POST /chat/stream) around the       *)
(* external graph object.  The graph is an opaque collaborator: what       *)
(* graph.stream yields and what graph.invoke returns are inputs.           *)
(*                                                                         *)
(* Text is modelled as a sequence of characters (one-character strings,    *)
(* plus a few multi-character literals of the source that are kept as one  *)
(* token, such as "event: ").                                              *)
(***************************************************************************)
EXTENDS Integers, Sequences, FiniteSets, TLC

\* ------------------------------------------------------------------ bounds
MaxChunks == 2      \* longest sequence of chunks graph.stream yields
MaxMsgs == 2        \* longest message list graph.invoke returns
MaxInputs == 2      \* user inputs typed into the Streamlit chat
MaxNewChats == 2    \* clicks on the Streamlit 'New Chat' button

\* ------------------------------------------------------------- characters
NL == "\n"
QT == "\""
BS == "\\"

\* Python's None, as a one-token sequence no text is equal to
None == <<"<None>">>

\* ---------------------------------------------------------------- messages
\* A message object: type is "human", "ai", "tool" (langchain message
\* classes, which have .content and .name) or "raw" (an object without a
\* .content attribute, e.g. a dict; content is then the text inside it).
Msg(t, c, n) == [type |-> t, content |-> c, name |-> n]

AiA == Msg("ai", <<"a">>, None)
AiMultiline == Msg("ai", <<"a", NL, "b">>, None)
AiEmpty == Msg("ai", <<>>, None)
HumanQ == Msg("human", <<"q">>, None)
ToolRetrieve == Msg("tool", <<"d">>, <<"R", "e", "t", "r", "i", "e", "v", "e", "_", "x">>)
ToolWeather == Msg("tool", <<"w", NL>>, <<"g", "e", "t", "_", "w">>)
ToolNoName == Msg("tool", <<"d">>, None)
RawMsg == Msg("raw", <<"r", NL>>, None)

\* hasattr(msg, "content")
HasContent(msg) == msg.type # "raw"

\* repr of a str's characters: backslash and line feed are written escaped
RECURSIVE ReprEscape(_)
ReprEscape(str) ==
    IF str = <<>> THEN <<>>
    ELSE (CASE Head(str) = BS -> <<BS, BS>>
            [] Head(str) = NL -> <<BS, "n">>
            [] OTHER -> <<Head(str)>>) \o ReprEscape(Tail(str))

\* str(msg) of an object without .content: its repr, which wraps the text
StrOf(msg) == <<"{'content': '">> \o ReprEscape(msg.content) \o <<"'}">>

\* isinstance(msg, AIMessage) / isinstance(msg, ToolMessage)
IsAI(msg) == msg.type = "ai"
IsTool(msg) == msg.type = "tool"

\* ------------------------------------------------------- graph.stream input
\* A chunk is a dict node -> update, iterated in insertion order: a sequence
\* of [node, messages] with distinct node names.
NodeUpd(n, ms) == [node |-> n, messages |-> ms]

ChunkAgent == << NodeUpd(<<"agent">>, <<AiA>>) >>
ChunkTwoNodes == << NodeUpd(<<"gen">>, <<HumanQ, AiMultiline>>),
                    NodeUpd(<<"tools">>, <<ToolRetrieve, RawMsg>>) >>
ChunkEmptyMsgs == << NodeUpd(<<"rewrite">>, <<>>) >>

ChunkSet == {ChunkAgent, ChunkTwoNodes, ChunkEmptyMsgs}

SeqsUpTo(S, n) == UNION { [1..k -> S] : k \in 0..n }

\* What one call of graph.stream does: it yields chunks in order and then
\* either stops or raises.
Streams == [chunks : SeqsUpTo(ChunkSet, MaxChunks), raises : BOOLEAN]

\* Thread ids a request can carry: absent/null, empty, or a non-empty string
ReqThreadIds == {None, <<>>, <<"t", "1">>}

\* str(uuid.uuid4()): the n-th value generated, distinct from every other
\* generated value and from every client-supplied id
Uuid(n) == <<"uuid", ToString(n)>>

\* --------------------------------------------------------- loop over chunks
\* for step, chunk in enumerate(graph.stream(...), start=1):
\*     for node, update in chunk.items():
\* The (chunk, node) pairs in the order the nested loops visit them, each with
\* the step number enumerate gives its chunk.
RECURSIVE PairsFrom(_, _)
PairsFrom(chunks, step) ==
    IF chunks = <<>> THEN <<>>
    ELSE [i \in 1..Len(Head(chunks)) |->
             [step |-> step, node |-> Head(chunks)[i].node,
              messages |-> Head(chunks)[i].messages]]
         \o PairsFrom(Tail(chunks), step + 1)

\* enumerate without start=1
PairsZeroBased(chunks) == PairsFrom(chunks, 0)

Pairs(chunks) == PairsFrom(chunks, 1)

\* update["messages"][-1] raises IndexError on an empty list
LastMsgRaises(pair) == pair.messages = <<>>

\* update["messages"][0] instead of [-1]
ContentOfFirst(pair) ==
    LET msg == pair.messages[1]
    IN  IF HasContent(msg) THEN msg.content ELSE StrOf(msg)

\* msg = update["messages"][-1]
\* content = msg.content if hasattr(msg, "content") else str(msg)
ContentOf(pair) ==
    LET msg == pair.messages[Len(pair.messages)]
    IN  IF HasContent(msg) THEN msg.content ELSE StrOf(msg)

\* f"Step {step} | Node: {node}\nResponse: {content}"
StepLine(step, node, content) ==
    <<"Step ", ToString(step), " | Node: ">> \o node \o <<NL, "Response: ">> \o content

\* ------------------------------------------------------------------- JSON
\* escaping that leaves a backslash as it is
RECURSIVE JsonEscapeNoBackslash(_)
JsonEscapeNoBackslash(s) ==
    IF s = <<>> THEN <<>>
    ELSE (CASE Head(s) = QT -> <<BS, QT>>
            [] Head(s) = NL -> <<BS, "n">>
            [] OTHER -> <<Head(s)>>) \o JsonEscapeNoBackslash(Tail(s))

\* json.dumps of a str: quotes, and escapes for quote, backslash and newline
RECURSIVE JsonEscape(_)
JsonEscape(s) ==
    IF s = <<>> THEN <<>>
    ELSE (CASE Head(s) = QT -> <<BS, QT>>
            [] Head(s) = BS -> <<BS, BS>>
            [] Head(s) = NL -> <<BS, "n">>
            [] OTHER -> <<Head(s)>>) \o JsonEscape(Tail(s))

JsonDumpsStr(s) == <<QT>> \o JsonEscape(s) \o <<QT>>

\* json.loads of a JSON string literal (the client's side)
RECURSIVE JsonUnescape(_)
JsonUnescape(s) ==
    IF s = <<>> THEN <<>>
    ELSE IF Head(s) = BS /\ Len(s) >= 2
         THEN (IF s[2] = "n" THEN <<NL>> ELSE <<s[2]>>) \o JsonUnescape(Tail(Tail(s)))
         ELSE <<Head(s)>> \o JsonUnescape(Tail(s))

JsonLoadsStr(j) == JsonUnescape(SubSeq(j, 2, Len(j) - 1))

\* json.dumps({'event': 'init', 'thread_id': thread_id}): the thread id is a
\* str here (a request's string or str(uuid4()))
InitEvent(thread_id) ==
    [event |-> "init", step |-> 0, node |-> <<>>, content |-> <<>>,
     thread_id |-> JsonDumpsStr(thread_id)]

\* json.dumps({'event': 'step', 'step': step, 'node': node, 'content': content})
StepEvent(step, node, content) ==
    [event |-> "step", step |-> step, node |-> JsonDumpsStr(node),
     content |-> JsonDumpsStr(content), thread_id |-> <<>>]

\* json.dumps({'event': 'done'})
DoneEvent ==
    [event |-> "done", step |-> 0, node |-> <<>>, content |-> <<>>, thread_id |-> <<>>]

\* "if req.thread_id is None" instead of "or": an empty string is kept
ThreadIdOrNoneOnly(reqThread, n) ==
    IF reqThread = None THEN Uuid(n + 1) ELSE reqThread

\* thread_id = req.thread_id or str(uuid.uuid4())
\* (None and "" are falsy; n is the number of uuids generated so far)
ThreadIdOr(reqThread, n) ==
    IF reqThread = None \/ reqThread = <<>> THEN Uuid(n + 1) ELSE reqThread

UsesUuid(reqThread) == reqThread = None \/ reqThread = <<>>

\* ------------------------------------------------------ server.py helpers
\* The value a helper returns when it returns None instead of a message
NoMsg == Msg("none", <<>>, None)

\* The fallback answer of POST /chat
IDontKnow == <<"I don't know.">>
AiIdk == Msg("ai", IDontKnow, None)

\* The message lists graph.invoke can return as result["messages"]
HistMsgs == {AiA, AiIdk, HumanQ, ToolRetrieve, ToolWeather, ToolNoName}
Histories == SeqsUpTo(HistMsgs, MaxMsgs)

\* the loop without reversed(): the first AI message
RECURSIVE extract_first_ai(_)
extract_first_ai(messages) ==
    IF messages = <<>> THEN NoMsg
    ELSE IF IsAI(Head(messages)) THEN Head(messages)
    ELSE extract_first_ai(Tail(messages))

\* for msg in reversed(messages): if isinstance(msg, AIMessage): return msg
\* return None
RECURSIVE extract_final_answer(_)
extract_final_answer(messages) ==
    IF messages = <<>> THEN NoMsg
    ELSE IF IsAI(messages[Len(messages)]) THEN messages[Len(messages)]
    ELSE extract_final_answer(SubSeq(messages, 1, Len(messages) - 1))

\* the first value returned by the loop without reversed()
RECURSIVE get_first_ai_answer(_)
get_first_ai_answer(messages) ==
    IF messages = <<>> THEN None
    ELSE IF IsAI(Head(messages)) THEN Head(messages).content
    ELSE get_first_ai_answer(Tail(messages))

\* same loop, returning msg.content (None when there is no AI message)
RECURSIVE get_last_ai_answer(_)
get_last_ai_answer(messages) ==
    IF messages = <<>> THEN None
    ELSE IF IsAI(messages[Len(messages)]) THEN messages[Len(messages)].content
    ELSE get_last_ai_answer(SubSeq(messages, 1, Len(messages) - 1))

\* no lowering
NotLowered(ch) == ch

\* str.lower(), on the characters the model uses
LowerChar(ch) == IF ch = "R" THEN "r" ELSE ch
Lower(str) == [i \in 1..Len(str) |-> LowerChar(str[i])]

\* sub in str
Contains(str, sub) ==
    \E i \in 1..(Len(str) - Len(sub) + 1) : SubSeq(str, i, i + Len(sub) - 1) = sub

Retrieve == <<"r", "e", "t", "r", "i", "e", "v", "e">>

\* for msg in reversed(messages): if isinstance(msg, ToolMessage): return {...}
\* return {"tool_name": None, "tool_type": "none"}
\* msg.name.lower() raises AttributeError when the tool message has no name
RECURSIVE extract_tool_metadata(_)
extract_tool_metadata(messages) ==
    IF messages = <<>>
    THEN [raised |-> FALSE, tool_name |-> None, tool_type |-> "none"]
    ELSE LET msg == messages[Len(messages)]
         IN  IF IsTool(msg)
             THEN IF msg.name = None
                  THEN [raised |-> TRUE, tool_name |-> None, tool_type |-> "none"]
                  ELSE [raised |-> FALSE, tool_name |-> msg.name,
                        tool_type |-> IF Contains(Lower(msg.name), Retrieve)
                                      THEN "rag" ELSE "custom"]
             ELSE extract_tool_metadata(SubSeq(messages, 1, Len(messages) - 1))

\* One SSE event of /chat/stream as the two strings the generator yields:
\* f"event: {name}\n" and f"data: {data}\n\n"
SseFrame(name, data) == <<"event: ", name, NL>> \o (<<"data: ">> \o data \o <<NL, NL>>)

\* f"{x}" of a str or of None
FmtStr(x) == IF x = None THEN <<"N", "o", "n", "e">> ELSE x

\* the lines of a text: the pieces between line feeds (the piece after the
\* last line feed is dropped when it is empty)
RECURSIVE SplitLines(_, _)
SplitLines(text, cur) ==
    IF text = <<>> THEN (IF cur = <<>> THEN <<>> ELSE <<cur>>)
    ELSE IF Head(text) = NL THEN <<cur>> \o SplitLines(Tail(text), <<>>)
    ELSE SplitLines(Tail(text), Append(cur, Head(text)))

Lines(text) == SplitLines(text, <<>>)

\* ------------------------------------------------------- POST /suggest data
\* final_answer values a SuggestRequest can carry: absent/null, "", a text
FinalAnswers == {None, <<>>, <<"f">>}

\* The message lists graph.get_state can return as state["messages"]
StoredMsgs == {AiA, AiEmpty, HumanQ, ToolWeather}
StoredLists == SeqsUpTo(StoredMsgs, MaxMsgs)

\* response.content values the language model can answer with
LlmReplies == { <<>>, <<"x">>, <<"-", " ">>, <<"-", " ", "x", NL, NL, " ", "y", " ">> }

\* "not x" of None or a str
Falsy(x) == x = None \/ x = <<>>

\* SUGGESTION_PROMPT.format(final_answer=final_answer)
SuggestionPrompt(final_answer) == <<"Final Answer:", NL>> \o final_answer \o <<NL>>

\* str.strip(chars)
RECURSIVE LStrip(_, _)
LStrip(str, chars) ==
    IF str # <<>> /\ Head(str) \in chars THEN LStrip(Tail(str), chars) ELSE str

RECURSIVE RStrip(_, _)
RStrip(str, chars) ==
    IF str # <<>> /\ str[Len(str)] \in chars
    THEN RStrip(SubSeq(str, 1, Len(str) - 1), chars) ELSE str

Strip(str, chars) == RStrip(LStrip(str, chars), chars)

Whitespace == {" ", NL}
BulletChars == {"-", "*", " "}      \* "-", the bullet sign and the space

\* [line.strip("-(bullet) ").strip() for line in content.split("\n") if line.strip()]
ParseSuggestions(content) ==
    LET kept == SelectSeq(Lines(content), LAMBDA line : Strip(line, Whitespace) # <<>>)
    IN  [i \in 1..Len(kept) |-> Strip(Strip(kept[i], BulletChars), Whitespace)]

\* ------------------------------------------------------------------ state
VARIABLES
    app,        \* which FastAPI app is being served: "main" (main.py) or "server" (server.py)
    stream,     \* what graph.stream does when called: [chunks, raises]
    reqThread,  \* the thread_id the client's requests carry
    uuidCount,  \* number of uuid4() values generated so far
    q,          \* POST /query:        handler position, locals and response
    s,          \* POST /query/stream: generator position, locals and events yielded
    w,          \* WebSocket /query/ws: handler position, locals, messages sent
    c,          \* POST /chat:         handler position, locals and response
    cs,         \* POST /chat/stream:  generator position, locals and text yielded
    sg,         \* POST /suggest:      handler position, locals, calls made and response
    ui          \* frontend_streamlit.py: st.session_state and the position of the script run

vars == <<app, stream, reqThread, uuidCount, q, s, w, c, cs, sg, ui>>

NoCfg == <<"<not called>">>     \* graph not called yet
NoResp == [status |-> 0, answer |-> <<>>, steps |-> <<>>, thread_id |-> <<>>]

QInit == [pc |-> "idle", thread |-> None, cfg |-> NoCfg, k |-> 0,
          steps |-> <<>>, answer |-> <<>>, resp |-> NoResp]
SInit == [pc |-> "idle", thread |-> None, cfg |-> NoCfg, k |-> 0, out |-> <<>>]
WInit == [pc |-> "idle", thread |-> None, cfg |-> NoCfg, k |-> 0, out |-> <<>>,
          closes |-> 0, err |-> "none"]

NoChatResp == [status |-> 0, answer |-> <<>>, thread_id |-> <<>>,
               tool_type |-> "", tool_name |-> None]
CInit == [pc |-> "idle", thread |-> None, cfg |-> NoCfg, result |-> <<>>,
          resp |-> NoChatResp]
CsInit == [pc |-> "idle", thread |-> None, cfg |-> NoCfg, k |-> 0, m |-> 0,
           out |-> <<>>]

NoSuggestResp == [status |-> 0, suggestions |-> <<>>, thread_id |-> None]
SgInit == [pc |-> "idle", request_final |-> None, final_answer |-> None,
           stored |-> <<>>, state_calls |-> 0, llm_calls |-> 0, prompt |-> <<>>,
           resp |-> NoSuggestResp]
\* pc: "new" (no session yet), "idle" (the script run has ended),
\* "streaming" (in the graph.stream loop), "failed" (the run ended with an
\* exception); inputs and chats count the interactions so far, failed_runs the
\* runs that raised since the history was last emptied
UiInit == [pc |-> "new", thread_id |-> None, messages |-> <<>>, k |-> 0,
           final_answer |-> <<>>, inputs |-> 0, chats |-> 0, failed_runs |-> 0]

Init ==
    /\ sg = SgInit
    /\ ui = UiInit
    /\ app \in {"main", "server"}
    /\ stream \in Streams
    /\ reqThread \in ReqThreadIds
    /\ uuidCount = 0
    /\ q = QInit
    /\ s = SInit
    /\ w = WInit
    /\ c = CInit
    /\ cs = CsInit

AllPairs == Pairs(stream.chunks)

\* The handlers share no state (each has its own locals; uuid4 values are
\* independent), so the client's requests are taken one at a time: a request
\* is sent when no handler is in progress.
NoneInProgress ==
    /\ q.pc \in {"idle", "returned", "raised"}
    /\ s.pc \in {"idle", "finished", "raised", "closed"}
    /\ w.pc \in {"idle", "closed"}
    /\ c.pc \in {"idle", "returned", "raised"}
    /\ cs.pc \in {"idle", "finished", "raised"}

\* ------------------------------------------------------------ POST /query
\* query(): thread_id = req.thread_id or str(uuid.uuid4()); run_graph is
\* entered, which builds config and calls graph.stream
QueryStart ==
    /\ app = "main"
    /\ NoneInProgress
    /\ q.pc = "idle"
    /\ LET tid == ThreadIdOr(reqThread, uuidCount)
       IN  q' = [q EXCEPT !.pc = "loop", !.thread = tid, !.cfg = tid]
    /\ uuidCount' = IF UsesUuid(reqThread) THEN uuidCount + 1 ELSE uuidCount
    /\ UNCHANGED <<sg, ui, app, stream, reqThread, s, w, c, cs>>

\* one iteration of the inner loop of run_graph
QueryStep ==
    /\ q.pc = "loop"
    /\ q.k < Len(AllPairs)
    /\ ~LastMsgRaises(AllPairs[q.k + 1])
    /\ LET pair == AllPairs[q.k + 1]
           content == ContentOf(pair)
       IN  q' = [q EXCEPT !.k = q.k + 1,
                          !.steps = Append(q.steps, StepLine(pair.step, pair.node, content)),
                          !.answer = content]
    /\ UNCHANGED <<sg, ui, app, stream, reqThread, uuidCount, s, w, c, cs>>

\* graph.stream or update["messages"][-1] raises: nothing catches it in
\* run_graph or query, the client gets an error response without a body of ours
QueryRaise ==
    /\ q.pc = "loop"
    /\ \/ q.k < Len(AllPairs) /\ LastMsgRaises(AllPairs[q.k + 1])
       \/ q.k = Len(AllPairs) /\ stream.raises
    /\ q' = [q EXCEPT !.pc = "raised", !.resp = [NoResp EXCEPT !.status = 500]]
    /\ UNCHANGED <<sg, ui, app, stream, reqThread, uuidCount, s, w, c, cs>>

\* return final_answer, steps_log; query() returns the response dict
QueryReturn ==
    /\ q.pc = "loop"
    /\ q.k = Len(AllPairs)
    /\ ~stream.raises
    /\ q' = [q EXCEPT !.pc = "returned",
                      !.resp = [status |-> 200, answer |-> q.answer,
                                steps |-> q.steps, thread_id |-> q.thread]]
    /\ UNCHANGED <<sg, ui, app, stream, reqThread, uuidCount, s, w, c, cs>>

\* ----------------------------------------------------- POST /query/stream
\* query_stream(): the thread id is fixed and the generator object created;
\* no line of sse_graph_stream has run yet
SseStart ==
    /\ app = "main"
    /\ NoneInProgress
    /\ s.pc = "idle"
    /\ s' = [s EXCEPT !.pc = "created", !.thread = ThreadIdOr(reqThread, uuidCount)]
    /\ uuidCount' = IF UsesUuid(reqThread) THEN uuidCount + 1 ELSE uuidCount
    /\ UNCHANGED <<sg, ui, app, stream, reqThread, q, w, c, cs>>

\* first next(): yield the init event
SseYieldInit ==
    /\ s.pc = "created"
    /\ s' = [s EXCEPT !.pc = "atInit", !.out = Append(s.out, InitEvent(s.thread))]
    /\ UNCHANGED <<sg, ui, app, stream, reqThread, uuidCount, q, w, c, cs>>

\* next() while suspended at the init or a step yield: the loop runs to the
\* next yield of a step event (graph.stream is called on the first of these)
SseYieldStep ==
    /\ s.pc \in {"atInit", "atStep"}
    /\ s.k < Len(AllPairs)
    /\ ~LastMsgRaises(AllPairs[s.k + 1])
    /\ LET pair == AllPairs[s.k + 1]
       IN  s' = [s EXCEPT !.pc = "atStep", !.cfg = s.thread, !.k = s.k + 1,
                          !.out = Append(s.out, StepEvent(pair.step, pair.node, ContentOf(pair)))]
    /\ UNCHANGED <<sg, ui, app, stream, reqThread, uuidCount, q, w, c, cs>>

\* next() when the stream is exhausted: yield the done event
SseYieldDone ==
    /\ s.pc \in {"atInit", "atStep"}
    /\ s.k = Len(AllPairs)
    /\ ~stream.raises
    /\ s' = [s EXCEPT !.pc = "atDone", !.cfg = s.thread, !.out = Append(s.out, DoneEvent)]
    /\ UNCHANGED <<sg, ui, app, stream, reqThread, uuidCount, q, w, c, cs>>

\* next() when graph.stream or the update raises: only GeneratorExit is
\* caught, the exception leaves the generator and the response is cut
SseRaise ==
    /\ s.pc \in {"atInit", "atStep"}
    /\ \/ s.k < Len(AllPairs) /\ LastMsgRaises(AllPairs[s.k + 1])
       \/ s.k = Len(AllPairs) /\ stream.raises
    /\ s' = [s EXCEPT !.pc = "raised", !.cfg = s.thread]
    /\ UNCHANGED <<sg, ui, app, stream, reqThread, uuidCount, q, w, c, cs>>

\* next() after the done event: the generator returns
SseFinish ==
    /\ s.pc = "atDone"
    /\ s' = [s EXCEPT !.pc = "finished"]
    /\ UNCHANGED <<sg, ui, app, stream, reqThread, uuidCount, q, w, c, cs>>

\* a done event yielded while handling GeneratorExit
SseCloseEmitsDone ==
    /\ s.pc \in {"atInit", "atStep", "atDone"}
    /\ s' = [s EXCEPT !.pc = "closed", !.out = Append(s.out, DoneEvent)]
    /\ UNCHANGED <<sg, ui, app, stream, reqThread, uuidCount, q, w, c, cs>>

\* the consumer closes the started generator: GeneratorExit is raised at the
\* yield it is suspended at; at the init yield it leaves the generator, inside
\* the try it is caught and the generator returns
SseClose ==
    /\ s.pc \in {"atInit", "atStep", "atDone"}
    /\ s' = [s EXCEPT !.pc = "closed"]
    /\ UNCHANGED <<sg, ui, app, stream, reqThread, uuidCount, q, w, c, cs>>

\* ---------------------------------------------------- WebSocket /query/ws
\* await websocket.accept()
WsAccept ==
    /\ app = "main"
    /\ NoneInProgress
    /\ w.pc = "idle"
    /\ w' = [w EXCEPT !.pc = "accepted"]
    /\ UNCHANGED <<sg, ui, app, stream, reqThread, uuidCount, q, s, c, cs>>

\* data = await websocket.receive_json() raises (disconnect, not JSON), or
\* data["query"] raises because the object has no 'query' key
WsBadRequest ==
    /\ w.pc = "accepted"
    /\ w' = [w EXCEPT !.pc = "finally", !.err = "request"]
    /\ UNCHANGED <<sg, ui, app, stream, reqThread, uuidCount, q, s, c, cs>>

\* the request is read, the thread id fixed, and the init message sent
\* (sendOk: whether websocket.send_json succeeds)
WsSendInit ==
    /\ w.pc = "accepted"
    /\ \E sendOk \in BOOLEAN :
          LET tid == ThreadIdOr(reqThread, uuidCount)
          IN  w' = IF sendOk
                   THEN [w EXCEPT !.pc = "loop", !.thread = tid,
                                  !.out = Append(w.out, InitEvent(tid))]
                   ELSE [w EXCEPT !.pc = "finally", !.thread = tid, !.err = "send"]
    /\ uuidCount' = IF UsesUuid(reqThread) THEN uuidCount + 1 ELSE uuidCount
    /\ UNCHANGED <<sg, ui, app, stream, reqThread, q, s, c, cs>>

\* one iteration of the inner loop: send a step message
WsSendStep ==
    /\ w.pc = "loop"
    /\ w.k < Len(AllPairs)
    /\ ~LastMsgRaises(AllPairs[w.k + 1])
    /\ \E sendOk \in BOOLEAN :
          LET pair == AllPairs[w.k + 1]
          IN  w' = IF sendOk
                   THEN [w EXCEPT !.cfg = w.thread, !.k = w.k + 1,
                                  !.out = Append(w.out, StepEvent(pair.step, pair.node, ContentOf(pair)))]
                   ELSE [w EXCEPT !.cfg = w.thread, !.pc = "finally", !.err = "send"]
    /\ UNCHANGED <<sg, ui, app, stream, reqThread, uuidCount, q, s, c, cs>>

\* the exception ends the handler without the finally clause
WsRaiseNoFinally ==
    /\ w.pc = "loop"
    /\ \/ w.k < Len(AllPairs) /\ LastMsgRaises(AllPairs[w.k + 1])
       \/ w.k = Len(AllPairs) /\ stream.raises
    /\ w' = [w EXCEPT !.cfg = w.thread, !.pc = "closed", !.err = "graph"]
    /\ UNCHANGED <<sg, ui, app, stream, reqThread, uuidCount, q, s, c, cs>>

\* graph.stream or update["messages"][-1] raises: except Exception: pass
WsRaise ==
    /\ w.pc = "loop"
    /\ \/ w.k < Len(AllPairs) /\ LastMsgRaises(AllPairs[w.k + 1])
       \/ w.k = Len(AllPairs) /\ stream.raises
    /\ w' = [w EXCEPT !.cfg = w.thread, !.pc = "finally", !.err = "graph"]
    /\ UNCHANGED <<sg, ui, app, stream, reqThread, uuidCount, q, s, c, cs>>

\* the stream is exhausted: send the done message
WsSendDone ==
    /\ w.pc = "loop"
    /\ w.k = Len(AllPairs)
    /\ ~stream.raises
    /\ \E sendOk \in BOOLEAN :
          w' = IF sendOk
               THEN [w EXCEPT !.cfg = w.thread, !.pc = "finally",
                              !.out = Append(w.out, DoneEvent)]
               ELSE [w EXCEPT !.cfg = w.thread, !.pc = "finally", !.err = "send"]
    /\ UNCHANGED <<sg, ui, app, stream, reqThread, uuidCount, q, s, c, cs>>

\* finally: await websocket.close()
WsClose ==
    /\ w.pc = "finally"
    /\ w' = [w EXCEPT !.pc = "closed", !.closes = w.closes + 1]
    /\ UNCHANGED <<sg, ui, app, stream, reqThread, uuidCount, q, s, c, cs>>

\* ------------------------------------------------------------- POST /chat
\* chat(): the thread id is fixed, config built and graph.invoke called
ChatInvoke ==
    /\ app = "server"
    /\ NoneInProgress
    /\ c.pc = "idle"
    /\ LET tid == ThreadIdOr(reqThread, uuidCount)
       IN  c' = [c EXCEPT !.pc = "invoked", !.thread = tid, !.cfg = tid]
    /\ uuidCount' = IF UsesUuid(reqThread) THEN uuidCount + 1 ELSE uuidCount
    /\ UNCHANGED <<sg, ui, app, stream, reqThread, q, s, w, cs>>

\* graph.invoke returns result; the answer and the tool metadata are
\* extracted and the ChatResponse built (an exception of
\* extract_tool_metadata is not caught: error response)
ChatRespond ==
    /\ c.pc = "invoked"
    /\ \E messages \in Histories :
          LET final_msg == extract_final_answer(messages)
              tool_meta == extract_tool_metadata(messages)
          IN  c' = IF tool_meta.raised
                   THEN [c EXCEPT !.pc = "raised", !.result = messages,
                                  !.resp = [NoChatResp EXCEPT !.status = 500]]
                   ELSE [c EXCEPT !.pc = "returned", !.result = messages,
                                  !.resp = [status |-> 200,
                                            answer |-> IF final_msg # NoMsg
                                                       THEN final_msg.content
                                                       ELSE IDontKnow,
                                            thread_id |-> c.thread,
                                            tool_type |-> tool_meta.tool_type,
                                            tool_name |-> tool_meta.tool_name]]
    /\ UNCHANGED <<sg, ui, app, stream, reqThread, uuidCount, q, s, w, cs>>

\* graph.invoke raises
ChatInvokeRaises ==
    /\ c.pc = "invoked"
    /\ c' = [c EXCEPT !.pc = "raised", !.resp = [NoChatResp EXCEPT !.status = 500]]
    /\ UNCHANGED <<sg, ui, app, stream, reqThread, uuidCount, q, s, w, cs>>

\* ------------------------------------------------------ POST /chat/stream
\* chat_stream(): the thread id is fixed, config built, the generator created
CsStart ==
    /\ app = "server"
    /\ NoneInProgress
    /\ cs.pc = "idle"
    /\ cs' = [cs EXCEPT !.pc = "created", !.thread = ThreadIdOr(reqThread, uuidCount)]
    /\ uuidCount' = IF UsesUuid(reqThread) THEN uuidCount + 1 ELSE uuidCount
    /\ UNCHANGED <<sg, ui, app, stream, reqThread, q, s, w, c>>

\* yield "event: thread\n"; yield f"data: {thread_id}\n\n"
CsYieldThread ==
    /\ cs.pc = "created"
    /\ cs' = [cs EXCEPT !.pc = "nextPair",
                        !.out = cs.out \o SseFrame("thread", cs.thread)]
    /\ UNCHANGED <<sg, ui, app, stream, reqThread, uuidCount, q, s, w, c>>

\* next (chunk, node) pair: yield "event: node\n"; yield f"data: (mark) Node: {node}\n\n"
CsYieldNode ==
    /\ cs.pc = "nextPair"
    /\ cs.k < Len(AllPairs)
    /\ cs' = [cs EXCEPT !.pc = "inPair", !.cfg = cs.thread, !.k = cs.k + 1, !.m = 0,
                        !.out = cs.out \o SseFrame("node", <<"Node: ">> \o AllPairs[cs.k + 1].node)]
    /\ UNCHANGED <<sg, ui, app, stream, reqThread, uuidCount, q, s, w, c>>

\* for msg in update["messages"]: one event for an AI or a tool message,
\* nothing for any other message
CsYieldMsg ==
    /\ cs.pc = "inPair"
    /\ cs.m < Len(AllPairs[cs.k].messages)
    /\ LET msg == AllPairs[cs.k].messages[cs.m + 1]
       IN  cs' = [cs EXCEPT !.m = cs.m + 1,
                            !.out = IF IsAI(msg)
                                    THEN cs.out \o SseFrame("message", msg.content)
                                    ELSE IF IsTool(msg)
                                    THEN cs.out \o SseFrame("tool", <<"Tool=">> \o FmtStr(msg.name))
                                    ELSE cs.out]
    /\ UNCHANGED <<sg, ui, app, stream, reqThread, uuidCount, q, s, w, c>>

\* the message list of the update is exhausted
CsEndPair ==
    /\ cs.pc = "inPair"
    /\ cs.m = Len(AllPairs[cs.k].messages)
    /\ cs' = [cs EXCEPT !.pc = "nextPair"]
    /\ UNCHANGED <<sg, ui, app, stream, reqThread, uuidCount, q, s, w, c>>

\* graph.stream raises: nothing catches it, the response is cut
CsRaise ==
    /\ cs.pc = "nextPair"
    /\ cs.k = Len(AllPairs)
    /\ stream.raises
    /\ cs' = [cs EXCEPT !.pc = "raised", !.cfg = cs.thread]
    /\ UNCHANGED <<sg, ui, app, stream, reqThread, uuidCount, q, s, w, c>>

\* yield "event: done\n"; yield "data: end\n\n"; the generator returns
CsYieldDone ==
    /\ cs.pc = "nextPair"
    /\ cs.k = Len(AllPairs)
    /\ ~stream.raises
    /\ cs' = [cs EXCEPT !.pc = "finished", !.cfg = cs.thread,
                        !.out = cs.out \o SseFrame("done", <<"e", "n", "d">>)]
    /\ UNCHANGED <<sg, ui, app, stream, reqThread, uuidCount, q, s, w, c>>

\* ---------------------------------------------------------- POST /suggest
\* suggest(): final_answer = request.final_answer; without one, a request
\* without thread_id is answered at once, otherwise the memory is loaded next
SuggestStart ==
    /\ app = "server"
    /\ NoneInProgress
    /\ sg.pc = "idle"
    /\ \E fa \in FinalAnswers :
          sg' = IF ~Falsy(fa)
                THEN [sg EXCEPT !.pc = "prompt", !.request_final = fa, !.final_answer = fa]
                ELSE IF Falsy(reqThread)
                THEN [sg EXCEPT !.pc = "returned", !.request_final = fa,
                                !.resp = [status |-> 200, suggestions |-> <<>>,
                                          thread_id |-> None]]
                ELSE [sg EXCEPT !.pc = "get_state", !.request_final = fa]
    /\ UNCHANGED <<ui, app, stream, reqThread, uuidCount, q, s, w, c, cs>>

\* state = graph.get_state(config)
\* final_answer = get_last_ai_answer(state["messages"]); without one the
\* request is answered with no suggestions
SuggestGetState ==
    /\ sg.pc = "get_state"
    /\ \E messages \in StoredLists :
          LET fa == get_last_ai_answer(messages)
          IN  sg' = IF Falsy(fa)
                    THEN [sg EXCEPT !.pc = "returned", !.stored = messages,
                                    !.state_calls = sg.state_calls + 1,
                                    !.final_answer = fa,
                                    !.resp = [status |-> 200, suggestions |-> <<>>,
                                              thread_id |-> reqThread]]
                    ELSE [sg EXCEPT !.pc = "prompt", !.stored = messages,
                                    !.state_calls = sg.state_calls + 1,
                                    !.final_answer = fa]
    /\ UNCHANGED <<ui, app, stream, reqThread, uuidCount, q, s, w, c, cs>>

\* graph.get_state (or state["messages"]) raises: nothing catches it
SuggestGetStateRaises ==
    /\ sg.pc = "get_state"
    /\ sg' = [sg EXCEPT !.pc = "raised", !.state_calls = sg.state_calls + 1,
                        !.resp = [NoSuggestResp EXCEPT !.status = 500]]
    /\ UNCHANGED <<ui, app, stream, reqThread, uuidCount, q, s, w, c, cs>>

\* prompt = SUGGESTION_PROMPT.format(...); response = response_model.invoke(...)
\* the reply is parsed, one suggestion per non-blank line, and returned
SuggestInvokeLlm ==
    /\ sg.pc = "prompt"
    /\ \E content \in LlmReplies :
          sg' = [sg EXCEPT !.pc = "returned",
                           !.prompt = SuggestionPrompt(sg.final_answer),
                           !.llm_calls = sg.llm_calls + 1,
                           !.resp = [status |-> 200,
                                     suggestions |-> ParseSuggestions(content),
                                     thread_id |-> reqThread]]
    /\ UNCHANGED <<ui, app, stream, reqThread, uuidCount, q, s, w, c, cs>>

\* response_model.invoke raises: nothing catches it
SuggestLlmRaises ==
    /\ sg.pc = "prompt"
    /\ sg' = [sg EXCEPT !.pc = "raised",
                        !.prompt = SuggestionPrompt(sg.final_answer),
                        !.llm_calls = sg.llm_calls + 1,
                        !.resp = [NoSuggestResp EXCEPT !.status = 500]]
    /\ UNCHANGED <<ui, app, stream, reqThread, uuidCount, q, s, w, c, cs>>

NoStream == [chunks |-> <<>>, raises |-> FALSE]

\* server.py serving POST /suggest requests
InitSuggest ==
    /\ app = "server"
    /\ stream = NoStream
    /\ reqThread \in ReqThreadIds
    /\ uuidCount = 0
    /\ q = QInit /\ s = SInit /\ w = WInit /\ c = CInit /\ cs = CsInit
    /\ sg = SgInit
    /\ ui = UiInit

NextSuggest ==
    \/ SuggestStart \/ SuggestGetState \/ SuggestGetStateRaises
    \/ SuggestInvokeLlm \/ SuggestLlmRaises

SpecSuggest == InitSuggest /\ [][NextSuggest]_vars

\* ------------------------------------------------- frontend_streamlit.py
\* what the user can type into st.chat_input
UserTexts == { <<"h">>, <<"i">> }

\* {"role": ..., "content": ...}
Turn(role, content) == [role |-> role, content |-> content]

\* the inner loop over update["messages"]: final_answer after the update
RECURSIVE FinalAnswerAfter(_, _)
FinalAnswerAfter(final_answer, messages) ==
    IF messages = <<>> THEN final_answer
    ELSE FinalAnswerAfter(
             IF Head(messages).type # "tool" /\ IsAI(Head(messages))
             THEN Head(messages).content ELSE final_answer,
             Tail(messages))

\* first script run of a session: thread_id and messages are created
UiFirstRun ==
    /\ ui.pc = "new"
    /\ ui' = [ui EXCEPT !.pc = "idle", !.thread_id = Uuid(uuidCount + 1),
                        !.messages = <<>>]
    /\ uuidCount' = uuidCount + 1
    /\ UNCHANGED <<sg, app, stream, reqThread, q, s, w, c, cs>>

\* the 'New Chat' button: new thread id, empty history, st.rerun()
UiNewChat ==
    /\ ui.pc \in {"idle", "failed"}
    /\ ui.chats < MaxNewChats
    /\ ui' = [ui EXCEPT !.pc = "idle", !.thread_id = Uuid(uuidCount + 1),
                        !.messages = <<>>, !.chats = ui.chats + 1,
                        !.failed_runs = 0]
    /\ uuidCount' = uuidCount + 1
    /\ UNCHANGED <<sg, app, stream, reqThread, q, s, w, c, cs>>

\* a user input: the user message is saved, final_answer = "" and
\* graph.stream is called (st: what the graph does in this run)
UiInput ==
    /\ ui.pc \in {"idle", "failed"}
    /\ ui.inputs < MaxInputs
    /\ \E user_input \in UserTexts : \E st \in Streams :
          /\ stream' = st
          /\ ui' = [ui EXCEPT !.pc = "streaming", !.inputs = ui.inputs + 1,
                              !.messages = Append(ui.messages, Turn("user", user_input)),
                              !.final_answer = <<>>, !.k = 0]
    /\ UNCHANGED <<sg, app, reqThread, uuidCount, q, s, w, c, cs>>

\* for node_name, update in chunk.items(): the messages of one update
UiStreamStep ==
    /\ ui.pc = "streaming"
    /\ ui.k < Len(AllPairs)
    /\ ui' = [ui EXCEPT !.k = ui.k + 1,
                        !.final_answer =
                            FinalAnswerAfter(ui.final_answer, AllPairs[ui.k + 1].messages)]
    /\ UNCHANGED <<sg, app, stream, reqThread, uuidCount, q, s, w, c, cs>>

\* graph.stream raises: the script run ends with the exception, what was
\* saved in st.session_state stays
UiStreamRaises ==
    /\ ui.pc = "streaming"
    /\ ui.k = Len(AllPairs)
    /\ stream.raises
    /\ ui' = [ui EXCEPT !.pc = "failed", !.failed_runs = ui.failed_runs + 1]
    /\ stream' = NoStream
    /\ UNCHANGED <<sg, app, reqThread, uuidCount, q, s, w, c, cs>>

\* the stream is exhausted: the final answer is saved as the assistant's turn
UiSaveAnswer ==
    /\ ui.pc = "streaming"
    /\ ui.k = Len(AllPairs)
    /\ ~stream.raises
    /\ ui' = [ui EXCEPT !.pc = "idle",
                        !.messages = Append(ui.messages, Turn("assistant", ui.final_answer))]
    /\ stream' = NoStream
    /\ UNCHANGED <<sg, app, reqThread, uuidCount, q, s, w, c, cs>>

\* the Streamlit program, one browser session
InitUi ==
    /\ app = "streamlit"
    /\ stream = NoStream
    /\ reqThread = None
    /\ uuidCount = 0
    /\ q = QInit /\ s = SInit /\ w = WInit /\ c = CInit /\ cs = CsInit
    /\ sg = SgInit
    /\ ui = UiInit

NextUi ==
    \/ UiFirstRun \/ UiNewChat \/ UiInput
    \/ UiStreamStep \/ UiStreamRaises \/ UiSaveAnswer

SpecUi == InitUi /\ [][NextUi]_vars

Next ==
    \/ ChatInvoke \/ ChatRespond \/ ChatInvokeRaises
    \/ CsStart \/ CsYieldThread \/ CsYieldNode \/ CsYieldMsg \/ CsEndPair
    \/ CsRaise \/ CsYieldDone
    \/ QueryStart \/ QueryStep \/ QueryRaise \/ QueryReturn
    \/ SseStart \/ SseYieldInit \/ SseYieldStep \/ SseYieldDone
    \/ SseRaise \/ SseFinish \/ SseClose
    \/ WsAccept \/ WsBadRequest \/ WsSendInit \/ WsSendStep
    \/ WsRaise \/ WsSendDone \/ WsClose

Spec == Init /\ [][Next]_vars

\* =================================================================== claims
\* What the client side sees
StepEvents(out) == SelectSeq(out, LAMBDA e : e.event = "step")
HasEvent(out, name) == \E i \in 1..Len(out) : out[i].event = name

\* the (step, node, content) triple a step event carries, as the client
\* decodes it with json.loads
Triple(e) == [step |-> e.step, node |-> JsonLoadsStr(e.node),
              content |-> JsonLoadsStr(e.content)]
Triples(out) == [i \in 1..Len(StepEvents(out)) |-> Triple(StepEvents(out)[i])]

\* number of (chunk, node) pairs in the chunks before chunk number ci
RECURSIVE PairsBefore(_, _)
PairsBefore(chunks, ci) ==
    IF ci <= 1 THEN 0 ELSE Len(chunks[ci - 1]) + PairsBefore(chunks, ci - 1)

TotalPairs == PairsBefore(stream.chunks, Len(stream.chunks) + 1)

\* the content of a message list's last message
LastContent(messages) ==
    LET msg == messages[Len(messages)]
    IN  IF msg.type = "raw" THEN StrOf(msg) ELSE msg.content

\* C1: on every transport of main.py the step records produced so far are, in
\* order, the records of the first (chunk, node) pairs of the stream: the
\* record at position PairsBefore(ci) + ni is the one of node number ni of
\* chunk number ci and carries step number ci (1-based); a run that completes
\* has produced one record for every pair.
C1_OrderPreserved ==
    /\ Len(q.steps) <= TotalPairs
    /\ Len(StepEvents(s.out)) <= TotalPairs
    /\ Len(StepEvents(w.out)) <= TotalPairs
    /\ \A ci \in 1..Len(stream.chunks) : \A ni \in 1..Len(stream.chunks[ci]) :
          LET j == PairsBefore(stream.chunks, ci) + ni
              upd == stream.chunks[ci][ni]
          IN  /\ j <= Len(q.steps) =>
                    q.steps[j] = StepLine(ci, upd.node, LastContent(upd.messages))
              /\ j <= Len(StepEvents(s.out)) =>
                    /\ Triples(s.out)[j].step = ci
                    /\ Triples(s.out)[j].node = upd.node
              /\ j <= Len(StepEvents(w.out)) =>
                    /\ Triples(w.out)[j].step = ci
                    /\ Triples(w.out)[j].node = upd.node
    /\ q.pc = "returned" => q.resp.steps = q.steps /\ Len(q.resp.steps) = TotalPairs
    /\ HasEvent(s.out, "done") => Len(StepEvents(s.out)) = TotalPairs
    /\ HasEvent(w.out, "done") => Len(StepEvents(w.out)) = TotalPairs

\* a two-chunk stream with a two-node chunk ran to completion on all three
C1_Witness ==
    /\ Len(stream.chunks) = 2
    /\ TotalPairs >= 3
    /\ q.pc = "returned" /\ Len(q.resp.steps) = TotalPairs
    /\ HasEvent(s.out, "done") /\ Len(StepEvents(s.out)) = TotalPairs
    /\ HasEvent(w.out, "done") /\ Len(StepEvents(w.out)) = TotalPairs

\* C2: partial-failure visibility on every transport: when the run fails
\* after k node updates were processed, the client has received the step
\* records of those k updates, and no normal answer and no done event.
C2_PartialFailureVisible ==
    /\ q.pc = "raised" =>
          /\ q.resp.steps = q.steps
          /\ Len(q.resp.steps) = q.k
          /\ q.resp.status # 200
    /\ s.pc = "raised" =>
          /\ Len(StepEvents(s.out)) = s.k
          /\ ~HasEvent(s.out, "done")
    /\ w.err = "graph" =>
          /\ Len(StepEvents(w.out)) = w.k
          /\ ~HasEvent(w.out, "done")

\* the part of C2 about the two streaming transports alone
C2_StreamingTransportsOnly ==
    /\ s.pc = "raised" =>
          /\ Len(StepEvents(s.out)) = s.k
          /\ ~HasEvent(s.out, "done")
    /\ w.err = "graph" =>
          /\ Len(StepEvents(w.out)) = w.k
          /\ ~HasEvent(w.out, "done")

\* C3: in every entry point that runs the graph the thread id is the
\* request's id when that is a non-empty string and a fresh uuid otherwise
\* (None or ""); the id in the graph config and the id reported to the client
\* are that same value, and it is fixed when the graph is called.
IsUuid(t) == \E n \in 1..uuidCount : t = Uuid(n)
RightThread(t) == IF reqThread # None /\ reqThread # <<>> THEN t = reqThread ELSE IsUuid(t)
\* the thread ids fixed so far, per entry point
FixedThreads ==
    [e \in {"q", "s", "w", "c", "cs"} |->
        CASE e = "q" -> IF q.pc # "idle" THEN q.thread ELSE None
          [] e = "s" -> IF s.pc # "idle" THEN s.thread ELSE None
          [] e = "w" -> w.thread
          [] e = "c" -> IF c.pc # "idle" THEN c.thread ELSE None
          [] e = "cs" -> IF cs.pc # "idle" THEN cs.thread ELSE None]

C3_ThreadId ==
    /\ \A e \in DOMAIN FixedThreads :
          FixedThreads[e] # None => RightThread(FixedThreads[e])
    /\ \A e1, e2 \in DOMAIN FixedThreads :
          (e1 # e2 /\ FixedThreads[e1] # None /\ IsUuid(FixedThreads[e1]))
              => FixedThreads[e1] # FixedThreads[e2]
    /\ q.pc # "idle" => q.cfg = q.thread
    /\ q.pc = "returned" => q.resp.thread_id = q.cfg
    /\ s.cfg # NoCfg => s.cfg = s.thread
    /\ s.out # <<>> => JsonLoadsStr(s.out[1].thread_id) = s.thread
    /\ s.cfg # NoCfg => s.out # <<>> /\ JsonLoadsStr(s.out[1].thread_id) = s.cfg
    /\ w.cfg # NoCfg => w.cfg = w.thread
    /\ w.out # <<>> => JsonLoadsStr(w.out[1].thread_id) = w.thread
    /\ w.cfg # NoCfg => w.out # <<>> /\ JsonLoadsStr(w.out[1].thread_id) = w.cfg
    /\ c.pc # "idle" => c.cfg = c.thread
    /\ c.pc = "returned" => c.resp.thread_id = c.cfg
    /\ cs.cfg # NoCfg => cs.cfg = cs.thread
    /\ cs.out # <<>> => Lines(cs.out)[2] = <<"data: ">> \o cs.thread
    /\ cs.cfg # NoCfg => cs.out # <<>> /\ Lines(cs.out)[2] = <<"data: ">> \o cs.cfg

\* requests with an empty-string thread id were served by /chat and by
\* /chat/stream, each with its own generated id
C3_Witness ==
    /\ reqThread = <<>>
    /\ c.pc = "returned" /\ IsUuid(c.resp.thread_id)
    /\ cs.pc = "finished" /\ IsUuid(cs.cfg)

\* the same on the three transports of main.py
C3_WitnessMain ==
    /\ reqThread = <<>>
    /\ q.pc = "returned" /\ IsUuid(q.resp.thread_id)
    /\ s.cfg # NoCfg /\ w.cfg # NoCfg

\* C4 and C5 are about the message list graph.invoke returned to POST /chat
AiIndexes(messages) == {i \in 1..Len(messages) : messages[i].type = "ai"}
ToolIndexes(messages) == {i \in 1..Len(messages) : messages[i].type = "tool"}
MaxOf(S) == CHOOSE x \in S : \A y \in S : y <= x

\* C4 (as amended): extract_final_answer returns the AI message with the
\* highest index (get_last_ai_answer its content) and None exactly when the
\* list has no AI message; POST /chat answers with that message's content, and
\* with "I don't know." when the list has no AI message.
C4_LastAiMessage ==
    c.pc \in {"returned", "raised"} =>
        LET messages == c.result
            ai == AiIndexes(messages)
        IN  /\ (ai = {}) <=> (extract_final_answer(messages) = NoMsg)
            /\ (ai = {}) <=> (get_last_ai_answer(messages) = None)
            /\ ai # {} =>
                  /\ extract_final_answer(messages) = messages[MaxOf(ai)]
                  /\ get_last_ai_answer(messages) = messages[MaxOf(ai)].content
            /\ c.pc = "returned" =>
                  c.resp.answer = IF ai = {} THEN IDontKnow
                                  ELSE messages[MaxOf(ai)].content

\* C4 as stated: the answer is the literal "I don't know." exactly when the
\* graph result contains no AI message
C4_IdkExactlyWhenNoAi ==
    c.pc = "returned" =>
        ((c.resp.answer = IDontKnow) <=> (AiIndexes(c.result) = {}))

\* /chat answered from a list with two AI messages, the last one not at the end
C4_Witness ==
    /\ c.pc = "returned"
    /\ Cardinality(AiIndexes(c.result)) = 2
    /\ c.result[1] # c.result[2]
    /\ c.resp.answer = c.result[2].content

\* /chat answered from a list without AI message
C4_WitnessNoAi ==
    /\ c.pc = "returned"
    /\ c.result # <<>>
    /\ AiIndexes(c.result) = {}
    /\ c.resp.answer = IDontKnow

\* "retrieve" occurs in the name once upper-case letters are lowered
NameHasRetrieve(name) ==
    \E i \in 1..Len(name) :
        /\ i + 7 <= Len(name)
        /\ \A j \in 1..8 :
              \/ name[i + j - 1] = Retrieve[j]
              \/ (Retrieve[j] = "r" /\ name[i + j - 1] = "R")

\* C5: whenever extract_tool_metadata returns (and /chat answers), tool_name is
\* the name of the tool message with the highest index and tool_type is "rag"
\* if the lower-cased name contains "retrieve", else "custom"; without tool
\* message they are None and "none"; tool_type is one of the three values and
\* is "none" iff tool_name is None.
C5_ToolMetadata ==
    c.pc = "returned" =>
        LET messages == c.result
            tools == ToolIndexes(messages)
        IN  /\ tools = {} => c.resp.tool_name = None /\ c.resp.tool_type = "none"
            /\ tools # {} =>
                  LET msg == messages[MaxOf(tools)]
                  IN  /\ c.resp.tool_name = msg.name
                      /\ c.resp.tool_type =
                            IF NameHasRetrieve(msg.name) THEN "rag" ELSE "custom"
            /\ c.resp.tool_type \in {"rag", "custom", "none"}
            /\ (c.resp.tool_type = "none") <=> (c.resp.tool_name = None)

\* two tool messages, the last one a retrieve tool written with a capital
C5_Witness ==
    /\ c.pc = "returned"
    /\ c.result = <<ToolWeather, ToolRetrieve>>
    /\ c.resp.tool_type = "rag"

\* C6: for a failure-free stream the three transports of main.py carry the
\* same (step, node, content) triples: the triples of the SSE step events and
\* of the WebSocket step messages agree position by position, every entry of
\* the JSON steps list is the formatted line of the triple at its position,
\* and when all three runs are complete the three sequences have the same
\* length and the last triple's content is the JSON answer.
MinOf(a, b) == IF a <= b THEN a ELSE b
LineOf(t) == StepLine(t.step, t.node, t.content)

C6_TransportsEquivalent ==
    /\ \A i \in 1..MinOf(Len(Triples(s.out)), Len(Triples(w.out))) :
          Triples(s.out)[i] = Triples(w.out)[i]
    /\ \A i \in 1..MinOf(Len(q.steps), Len(Triples(s.out))) :
          q.steps[i] = LineOf(Triples(s.out)[i])
    /\ \A i \in 1..MinOf(Len(q.steps), Len(Triples(w.out))) :
          q.steps[i] = LineOf(Triples(w.out)[i])
    /\ (q.pc = "returned" /\ HasEvent(s.out, "done") /\ HasEvent(w.out, "done")) =>
          /\ Len(q.resp.steps) = Len(Triples(s.out))
          /\ Len(q.resp.steps) = Len(Triples(w.out))
          /\ Triples(s.out) = Triples(w.out)
          /\ q.resp.steps = [i \in 1..Len(Triples(s.out)) |-> LineOf(Triples(s.out)[i])]
          /\ Triples(s.out) # <<>> =>
                Triples(s.out)[Len(Triples(s.out))].content = q.resp.answer

\* all three transports completed a stream of three updates whose contents
\* contain a line feed and a backslash
C6_Witness ==
    /\ stream.chunks = <<ChunkAgent, ChunkTwoNodes>>
    /\ q.pc = "returned"
    /\ HasEvent(s.out, "done")
    /\ HasEvent(w.out, "done")
    /\ Len(Triples(w.out)) = 3

\* C7 (as amended): on the SSE and WebSocket streams of main.py the init
\* event is emitted at most once, it is the first event of every stream that
\* emits anything, it carries the thread id and it precedes the call of
\* graph.stream; done is emitted at most once, as the last event, only when
\* the stream did not raise and every step event was emitted; nothing is
\* emitted after done, and closing the SSE generator emits nothing.
CountEvents(out, name) == Cardinality({i \in 1..Len(out) : out[i].event = name})

ProtocolOf(out, thread, cfg) ==
    /\ CountEvents(out, "init") <= 1
    /\ out # <<>> => out[1].event = "init" /\ JsonLoadsStr(out[1].thread_id) = thread
    /\ cfg # NoCfg => out # <<>> /\ out[1].event = "init"
    /\ CountEvents(out, "done") <= 1
    /\ \A i \in 1..Len(out) :
          out[i].event = "done" =>
              /\ i = Len(out)
              /\ ~stream.raises
              /\ Len(StepEvents(out)) = TotalPairs

C7_State == ProtocolOf(s.out, s.thread, s.cfg) /\ ProtocolOf(w.out, w.thread, w.cfg)

C7_Step ==
    /\ HasEvent(s.out, "done") => s'.out = s.out
    /\ HasEvent(w.out, "done") => w'.out = w.out
    /\ s'.pc = "closed" => s'.out = s.out

C7_EventProtocol == []C7_State /\ [][C7_Step]_vars

\* C7 as stated: every stream that has ended emitted init exactly once
C7_InitExactlyOnce ==
    /\ C7_State
    /\ s.pc \in {"finished", "raised", "closed"} => CountEvents(s.out, "init") = 1
    /\ w.pc = "closed" => CountEvents(w.out, "init") = 1

\* the SSE consumer closed the generator after a step event and before the
\* end of the stream, and the WebSocket run of the same stream sent done
C7_Witness ==
    /\ s.pc = "closed"
    /\ Len(StepEvents(s.out)) = 1
    /\ TotalPairs >= 2
    /\ ~HasEvent(s.out, "done")
    /\ HasEvent(w.out, "done")

\* C8: /query/ws closes the connection exactly once on every path after
\* accept: while the handler runs close has not been called and a next step
\* exists, when it has ended close was called once; only init, step and done
\* messages are ever sent (no error message), and after a failure (bad
\* request, exception of the graph, failed send) nothing more is sent.
WsCanStep ==
    ENABLED (WsBadRequest \/ WsSendInit \/ WsSendStep \/ WsRaise \/ WsSendDone \/ WsClose)

C8_State ==
    /\ w.closes = IF w.pc = "closed" THEN 1 ELSE 0
    /\ w.pc \notin {"idle", "closed"} => WsCanStep
    /\ \A i \in 1..Len(w.out) : w.out[i].event \in {"init", "step", "done"}
    /\ w.err # "none" =>
          /\ w.pc \in {"finally", "closed"}
          /\ ~HasEvent(w.out, "done")
          /\ Len(StepEvents(w.out)) = w.k

C8_Step ==
    /\ w.err # "none" => w'.out = w.out /\ w'.err = w.err
    /\ w.pc = "closed" => w' = w
    /\ w'.closes # w.closes => w.pc = "finally" /\ w'.pc = "closed"

C8_AlwaysCloses == []C8_State /\ [][C8_Step]_vars

\* a send failed after one step message was delivered and the connection
\* was closed
C8_Witness ==
    /\ w.pc = "closed"
    /\ w.closes = 1
    /\ w.err = "send"
    /\ Len(StepEvents(w.out)) = 1
    /\ TotalPairs >= 2

\* the other failure paths: a bad request, an exception of the graph
C8_WitnessBadRequest == w.pc = "closed" /\ w.err = "request" /\ w.out = <<>>
C8_WitnessGraphRaises ==
    w.pc = "closed" /\ w.err = "graph" /\ Len(StepEvents(w.out)) >= 1

\* C9: run_graph's answer is always the content of the last message of the
\* last (chunk, node) pair processed so far ("" before the first), whatever
\* its type; POST /query returns it with one steps entry per pair, and
\* answer = "" and steps = [] when the stream yields no chunk.
C9_RunGraphResult ==
    /\ q.k = 0 => q.answer = <<>> /\ q.steps = <<>>
    /\ Len(q.steps) = q.k
    /\ \A ci \in 1..Len(stream.chunks) : \A ni \in 1..Len(stream.chunks[ci]) :
          PairsBefore(stream.chunks, ci) + ni = q.k =>
              q.answer = LastContent(stream.chunks[ci][ni].messages)
    /\ q.pc = "returned" =>
          /\ q.k = TotalPairs
          /\ q.resp.answer = q.answer
          /\ q.resp.steps = q.steps
          /\ Len(q.resp.steps) = TotalPairs
          /\ stream.chunks = <<>> => q.resp.answer = <<>> /\ q.resp.steps = <<>>

\* the answer of a completed run is the text of an object that is no AI
\* message, while an AI message came earlier
C9_Witness ==
    /\ q.pc = "returned"
    /\ stream.chunks = <<ChunkAgent, ChunkTwoNodes>>
    /\ q.resp.answer = StrOf(RawMsg)
    /\ Len(q.resp.steps) = 3

C9_WitnessEmpty == q.pc = "returned" /\ stream.chunks = <<>> /\ q.resp.steps = <<>>

\* C10: /chat/stream.  The event lines of the text yielded so far
IsEventLine(line) == line # <<>> /\ line[1] = "event: "
IsDataLine(line) == line # <<>> /\ line[1] = "data: "
EventNames(text) ==
    LET ev == SelectSeq(Lines(text), IsEventLine)
    IN  [i \in 1..Len(ev) |-> ev[i][2]]

\* the event names the claim expects for a list of (chunk, node) pairs
RECURSIVE NamesOfMsgs(_)
NamesOfMsgs(messages) ==
    IF messages = <<>> THEN <<>>
    ELSE (CASE Head(messages).type = "ai" -> <<"message">>
            [] Head(messages).type = "tool" -> <<"tool">>
            [] OTHER -> <<>>) \o NamesOfMsgs(Tail(messages))

RECURSIVE NamesOfPairs(_)
NamesOfPairs(pairs) ==
    IF pairs = <<>> THEN <<>>
    ELSE <<"node">> \o NamesOfMsgs(Head(pairs).messages) \o NamesOfPairs(Tail(pairs))

ExpectedNames == <<"thread">> \o NamesOfPairs(AllPairs) \o <<"done">>

IsPrefix(a, b) == Len(a) <= Len(b) /\ SubSeq(b, 1, Len(a)) = a

\* the sequence part of C10: thread, then per pair node and one message or
\* tool event per AI or tool message, then done
C10_EventOrder ==
    /\ IsPrefix(EventNames(cs.out), ExpectedNames)
    /\ cs.pc = "finished" => EventNames(cs.out) = ExpectedNames

\* C10: the events come in the claimed order and every event is exactly one
\* 'event:' line, one 'data:' line and a blank line, for every content.
C10_SseFraming ==
    LET lines == Lines(cs.out)
    IN  /\ C10_EventOrder
        /\ Len(lines) % 3 = 0
        /\ \A i \in 1..Len(lines) :
              CASE i % 3 = 1 -> IsEventLine(lines[i])
                [] i % 3 = 2 -> IsDataLine(lines[i])
                [] OTHER -> lines[i] = <<>>

\* C11 (as amended): POST /suggest.  A request with a non-empty final_answer
\* never calls graph.get_state; without final_answer and without thread_id
\* (None or "") the answer is suggestions = [] and thread_id = None with no
\* call of the graph or of the language model; without final_answer and with
\* a thread_id whose stored messages have no AI message, or whose last AI
\* message has empty content, the answer is suggestions = [] with the
\* request's thread_id and no call of the language model; the language model
\* is called at most once and only with a non-empty final answer; the
\* response's thread_id is the request's, except that an empty-string
\* thread_id without final_answer is answered with None.
StoredHasNoAnswer ==
    \/ AiIndexes(sg.stored) = {}
    \/ sg.stored[MaxOf(AiIndexes(sg.stored))].content = <<>>

C11_Suggest ==
    sg.pc # "idle" =>
        /\ sg.request_final \notin {None, <<>>} => sg.state_calls = 0
        /\ (sg.request_final \in {None, <<>>} /\ reqThread \in {None, <<>>}) =>
              /\ sg.pc = "returned"
              /\ sg.resp.suggestions = <<>>
              /\ sg.resp.thread_id = None
              /\ sg.state_calls = 0
              /\ sg.llm_calls = 0
        /\ (sg.request_final \in {None, <<>>} /\ reqThread \notin {None, <<>>}
               /\ sg.pc = "returned" /\ StoredHasNoAnswer) =>
              /\ sg.resp.suggestions = <<>>
              /\ sg.resp.thread_id = reqThread
              /\ sg.state_calls = 1
              /\ sg.llm_calls = 0
        /\ sg.llm_calls <= 1
        /\ sg.llm_calls = 1 =>
              /\ sg.final_answer \notin {None, <<>>}
              /\ sg.prompt = <<"Final Answer:", NL>> \o sg.final_answer \o <<NL>>
              /\ sg.request_final \in {None, <<>>} =>
                    sg.final_answer = sg.stored[MaxOf(AiIndexes(sg.stored))].content
        /\ sg.pc = "returned" =>
              sg.resp.thread_id =
                  IF sg.request_final \in {None, <<>>} /\ reqThread = <<>>
                  THEN None ELSE reqThread

\* C11 as stated: the response's thread_id always equals the request's
C11_ThreadIdEchoed ==
    sg.pc = "returned" => sg.resp.thread_id = reqThread

\* the memory was loaded, its last AI message is empty while an earlier one
\* is not, and the request was answered without the language model
C11_Witness ==
    /\ sg.pc = "returned"
    /\ sg.stored = <<AiA, AiEmpty>>
    /\ sg.state_calls = 1
    /\ sg.llm_calls = 0
    /\ sg.resp.suggestions = <<>>

\* the language model was called with the answer found in the memory
C11_WitnessLlm ==
    /\ sg.pc = "returned"
    /\ sg.state_calls = 1
    /\ sg.llm_calls = 1
    /\ Len(sg.resp.suggestions) = 2

\* C12: the Streamlit history
Alternates(messages) ==
    /\ Len(messages) % 2 = 0
    /\ \A i \in 1..Len(messages) :
          messages[i].role = IF i % 2 = 1 THEN "user" ELSE "assistant"

\* C12: whenever no script run is in progress, st.session_state.messages is
\* a strictly alternating user/assistant list of even length.
C12_HistoryAlternates ==
    ui.pc \in {"idle", "failed"} => Alternates(ui.messages)

\* the same for histories no run of which raised, and the count of entries
\* in general
RoleCount(messages, role) ==
    Cardinality({i \in 1..Len(messages) : messages[i].role = role})

C12_WhenNoRunFails ==
    /\ (ui.pc = "idle" /\ ui.failed_runs = 0) => Alternates(ui.messages)
    /\ ui.pc \in {"idle", "failed"} =>
          RoleCount(ui.messages, "user")
              = RoleCount(ui.messages, "assistant") + ui.failed_runs
    /\ \A i \in 1..Len(ui.messages) :
          ui.messages[i].role = "assistant" =>
              ui.messages[i].content \in {<<>>, AiA.content, AiMultiline.content}

\* the other parts of C12, step by step: an input appends one user entry, a
\* completed run one assistant entry holding final_answer, 'New Chat' empties
\* the history and changes the thread id, nothing else changes the thread id
C12_Steps ==
    /\ (ui.pc \in {"idle", "failed"} /\ ui'.pc = "streaming") =>
          /\ Len(ui'.messages) = Len(ui.messages) + 1
          /\ ui'.messages[Len(ui'.messages)].role = "user"
          /\ ui'.thread_id = ui.thread_id
    /\ (ui.pc = "streaming" /\ ui'.pc = "idle") =>
          /\ ui'.messages = Append(ui.messages, [role |-> "assistant", content |-> ui.final_answer])
          /\ ui'.thread_id = ui.thread_id
    /\ (ui.pc = "streaming" /\ ui'.pc \in {"streaming", "failed"}) =>
          ui'.messages = ui.messages /\ ui'.thread_id = ui.thread_id
    /\ (ui.pc \in {"idle", "failed"} /\ ui'.pc = "idle") =>
          /\ ui'.messages = <<>>
          /\ ui'.thread_id # ui.thread_id

C12_StepsHold == [][C12_Steps]_vars

\* two inputs were answered in one chat
C12_TwoTurns ==
    /\ ui.pc = "idle"
    /\ Len(ui.messages) = 4
    /\ ui.messages[2].content = AiMultiline.content

====
